---- MODULE Spec2Model ----
(***************************************************************************)
(* Work distribution of the Robot Framework test suite: the coordinator    *)
(* (server.py, Flask + SQLite), the worker loop (worker.py) and the        *)
(* completion monitor (merger.py).                                         *)
(*                                                                         *)
(* Granularity.  Every request handler opens its own SQLite connection     *)
(* and the Flask server handles requests on separate threads.  Python's    *)
(* sqlite3 opens a transaction only before the first INSERT/UPDATE/DELETE, *)
(* so a SELECT that precedes the writes of a handler is a step of its own  *)
(* and the writes up to conn.commit() are one atomic step.  The merger     *)
(* reads with four SELECTs outside any transaction: four steps.            *)
(***************************************************************************)
EXTENDS Naturals, Integers, Sequences, FiniteSets, TLC

----------------------------------------------------------------------------
(* Bounds of the model *)

NumItems == 2
NumWorkers == 2
MaxResets == 1
MaxExtCalls == 1
MaxRestarts == 1
MaxSeeded == 2

(* Program constants *)
max_retries == 3
base_retry_delay == 1

Workers == 1..NumWorkers
\* Cap on the number of rows of test_executions.  Without a reset a worker
\* selects a test at most once, so the cap is reached only after resets.
MaxExec == NumItems * NumWorkers

NoTest == 0
NoExec == <<0, 0>>

TerminalStatus == {"completed", "failed"}
AnyStatus == {"pending", "running", "completed", "failed"}

VARIABLES
    test_cases,        \* table test_cases: id -> status
    test_executions,   \* table test_executions: execution_id -> row
    shared_outputs,    \* execution ids whose output.xml was copied to SHARED_OUTPUTS_DIR
    w_pc,              \* worker -> position in worker.main / in its request's handler
    w_attempt,         \* worker -> loop variable `attempt` of get_next_test
    retry_delay,       \* worker -> local retry_delay of get_next_test
    w_test,            \* worker -> row selected by the handler, then the test it holds
    w_exec,            \* worker -> execution_id it holds (NoExec: none)
    w_status,          \* worker -> status computed by run_test
    w_result,          \* worker -> result payload computed by run_test
    w_fetch,           \* worker -> how its last get_next_test ended
    w_slept,           \* worker -> argument of its last time.sleep in get_next_test
    resp,              \* last response of the coordinator to an update_test call
    test_name,         \* the test name in the last log line of update_test
    resets,            \* number of POST /api/reset calls so far
    ext_calls,         \* number of update_test calls by other clients so far
    seq,               \* sqlite_sequence of test_cases: the largest id given so far
    reset_rows,        \* rowcount in the message of the last POST /api/reset
    ext_req,           \* body of the last update_test call by another client
    m_pc,              \* position of the merger in monitor_and_merge
    m_status,          \* the dict get_test_status is building
    merge_calls,       \* number of rebot --merge invocations so far
    merge_input,       \* xml files handed to the last rebot invocation
    restarts           \* number of restarts of the merger process

srv_vars == <<test_cases, test_executions>>
wrk_vars == <<w_pc, w_attempt, retry_delay, w_test, w_exec, w_status, w_result, w_fetch, w_slept>>
mon_vars == <<m_pc, m_status, merge_calls, merge_input, restarts>>
env_vars == <<resets, ext_calls, seq, reset_rows, ext_req>>
vars == <<test_cases, test_executions, shared_outputs,
          w_pc, w_attempt, retry_delay, w_test, w_exec, w_status, w_result, w_fetch,
          w_slept, resp, test_name, resets, ext_calls, seq, reset_rows, ext_req,
          m_pc, m_status, merge_calls, merge_input, restarts>>

----------------------------------------------------------------------------
(* The store *)

ExecIds == DOMAIN test_executions

\* SELECT id FROM test_cases WHERE status = "pending"
PendingIds(tc) == {i \in DOMAIN tc : tc[i] = "pending"}

MinOf(S) == CHOOSE x \in S : \A y \in S : x <= y
MaxOf(S) == CHOOSE x \in S : \A y \in S : x >= y

SelectLastPending(tc) ==
    IF PendingIds(tc) = {} THEN NoTest ELSE MaxOf(PendingIds(tc))

\* SELECT ... WHERE status = "pending" ORDER BY id LIMIT 1; fetchone()
SelectNextPending(tc) ==
    IF PendingIds(tc) = {} THEN NoTest ELSE MinOf(PendingIds(tc))

\* UPDATE test_cases SET status = ? WHERE id = ?
SetCaseStatus(tc, id, st) ==
    [i \in DOMAIN tc |-> IF i = id THEN st ELSE tc[i]]

\* str(uuid.uuid4()): an id no row has yet.  The k-th id made for a request
\* of node n is <<n, k>>.
NewExecutionId(node_id) ==
    <<node_id, 1 + Cardinality({e \in ExecIds : e[1] = node_id})>>

\* INSERT INTO test_executions (execution_id, test_id, node_id, status, start_time).
\* end_time is 0 for NULL and k for the timestamp of the k-th write to the
\* row's end_time: datetime.now() gives a later value at every write.
NewExecution(test_id, node_id) ==
    [test_id |-> test_id, node_id |-> node_id, status |-> "running",
     end_time |-> 0, result |-> "null"]

\* SELECT COUNT( * ) FROM test_executions WHERE status IN S
CountExecutions(S) ==
    Cardinality({e \in ExecIds : test_executions[e].status \in S})

\* SELECT COUNT( * ) FROM test_cases WHERE status IN S
CountCases(S) ==
    Cardinality({i \in DOMAIN test_cases : test_cases[i] \in S})

----------------------------------------------------------------------------
(* Initial state: the catalog is seeded, every status is the column default
   "pending", no execution exists, no process has started *)

NoStatus == [total |-> 0, finished |-> 0, passed |-> 0, failed |-> 0]

Init ==
    /\ test_cases = [i \in 1..NumItems |-> "pending"]
    /\ test_executions = <<>>
    /\ shared_outputs = {}
    /\ w_pc = [w \in Workers |-> "connect"]
    /\ w_attempt = [w \in Workers |-> 0]
    /\ retry_delay = [w \in Workers |-> base_retry_delay]
    /\ w_test = [w \in Workers |-> NoTest]
    /\ w_exec = [w \in Workers |-> NoExec]
    /\ w_status = [w \in Workers |-> "none"]
    /\ w_result = [w \in Workers |-> "none"]
    /\ w_fetch = [w \in Workers |-> "none"]
    /\ w_slept = [w \in Workers |-> 0]
    /\ resp = 0
    /\ test_name = "none"
    /\ resets = 0
    /\ ext_calls = 0
    /\ seq = NumItems
    /\ reset_rows = 0
    /\ ext_req = [execution_id |-> NoExec, status |-> "none"]
    /\ m_pc = "total"
    /\ m_status = NoStatus
    /\ merge_calls = 0
    /\ merge_input = {}
    /\ restarts = 0

----------------------------------------------------------------------------
(* Coordinator: server.py *)

\* SELECT test_name FROM test_cases WHERE id = ?, lines 134-136: the name of
\* the row, or 'Unknown test' when the table has no row with this id
LoggedName(test_id) ==
    IF test_id \in DOMAIN test_cases THEN "known" ELSE "Unknown test"

update_test_row_only(execution_id, status, result) ==
    IF execution_id \notin ExecIds
    THEN /\ resp' = 404
         /\ UNCHANGED <<srv_vars, test_name>>
    ELSE /\ test_executions' =
              [test_executions EXCEPT ![execution_id] =
                  [@ EXCEPT !.status = status, !.end_time = @ + 1, !.result = result]]
         /\ test_cases' = test_cases
         /\ resp' = 200
         /\ test_name' = LoggedName(test_executions[execution_id].test_id)

update_test_accepting_unknown(execution_id, status, result) ==
    IF execution_id \notin ExecIds
    THEN /\ resp' = 200
         /\ UNCHANGED <<srv_vars, test_name>>
    ELSE /\ test_executions' =
              [test_executions EXCEPT ![execution_id] =
                  [@ EXCEPT !.status = status, !.end_time = @ + 1, !.result = result]]
         /\ test_cases' =
              SetCaseStatus(test_cases, test_executions[execution_id].test_id, status)
         /\ resp' = 200
         /\ test_name' = LoggedName(test_executions[execution_id].test_id)

\* update_test, lines 94-142: look the execution up (404 when there is no such
\* row), overwrite its row and the status of its test case, commit, answer 200.
\* The row's test_id never changes and rows are never deleted, so the lookup
\* and the writes are one step.  The log line (line 141) names the test.
update_test(execution_id, status, result) ==
    IF execution_id \notin ExecIds
    THEN /\ resp' = 404
         /\ UNCHANGED <<srv_vars, test_name>>
    ELSE /\ test_executions' =
              [test_executions EXCEPT ![execution_id] =
                  [@ EXCEPT !.status = status, !.end_time = @ + 1, !.result = result]]
         /\ test_cases' =
              SetCaseStatus(test_cases, test_executions[execution_id].test_id, status)
         /\ resp' = 200
         /\ test_name' = LoggedName(test_executions[execution_id].test_id)

reset_tests_dropping_history ==
    /\ resets < MaxResets
    /\ test_cases' = [i \in DOMAIN test_cases |-> "pending"]
    /\ reset_rows' = Cardinality(DOMAIN test_cases)
    /\ resets' = resets + 1
    /\ test_executions' = [e \in {x \in ExecIds : test_executions[x].status = "running"} |-> test_executions[e]]
    /\ UNCHANGED <<shared_outputs, resp, test_name, ext_calls, seq, ext_req>>
    /\ UNCHANGED wrk_vars
    /\ UNCHANGED mon_vars

\* reset_tests, lines 197-212: UPDATE test_cases SET status = "pending",
\* commit; the message carries cursor.rowcount, the number of rows the UPDATE
\* matched, which without a WHERE clause is every row of the table
reset_tests ==
    /\ resets < MaxResets
    /\ test_cases' = [i \in DOMAIN test_cases |-> "pending"]
    /\ reset_rows' = Cardinality(DOMAIN test_cases)
    /\ resets' = resets + 1
    /\ UNCHANGED <<test_executions, shared_outputs, resp, test_name, ext_calls, seq, ext_req>>
    /\ UNCHANGED wrk_vars
    /\ UNCHANGED mon_vars

\* POST /api/update_test sent by any other client of the API (a repeated or
\* late delivery, the distributor's update_test_status): any known or unknown
\* execution id, any status string
api_update_test ==
    /\ ext_calls < MaxExtCalls
    /\ \E execution_id \in ExecIds \cup {NoExec}, status \in AnyStatus :
          /\ update_test(execution_id, status, "ext")
          /\ ext_req' = [execution_id |-> execution_id, status |-> status]
    /\ ext_calls' = ext_calls + 1
    /\ UNCHANGED <<shared_outputs, resets, seq, reset_rows>>
    /\ UNCHANGED wrk_vars
    /\ UNCHANGED mon_vars

----------------------------------------------------------------------------
(* Seeding: parse_robot_tests.py *)

store_in_database_appending ==
    /\ \E n \in 1..NumItems :
          /\ seq + n <= NumItems + MaxSeeded
          /\ test_cases' = test_cases @@ [i \in (seq + 1)..(seq + n) |-> "pending"]
          /\ seq' = seq + n
    /\ UNCHANGED <<test_executions, shared_outputs, resp, test_name, resets, ext_calls, reset_rows, ext_req>>
    /\ UNCHANGED wrk_vars
    /\ UNCHANGED mon_vars

store_in_database_reusing_ids ==
    /\ \E n \in 1..NumItems :
          /\ seq + n <= NumItems + MaxSeeded
          /\ test_cases' = [i \in 1..n |-> "pending"]
          /\ seq' = seq + n
    /\ UNCHANGED <<test_executions, shared_outputs, resp, test_name, resets, ext_calls, reset_rows, ext_req>>
    /\ UNCHANGED wrk_vars
    /\ UNCHANGED mon_vars

\* store_in_database, lines 83-98, called by main (line 157) with the n >= 1
\* tests it found: DELETE FROM test_cases, one INSERT per test, commit.  The
\* id column is AUTOINCREMENT (line 27): the new rows get the ids after the
\* largest id the table ever had.  The status column takes its default,
\* "pending".  No other table is read or written.
store_in_database ==
    /\ \E n \in 1..NumItems :
          /\ seq + n <= NumItems + MaxSeeded
          /\ test_cases' = [i \in (seq + 1)..(seq + n) |-> "pending"]
          /\ seq' = seq + n
    /\ UNCHANGED <<test_executions, shared_outputs, resp, test_name, resets, ext_calls, reset_rows, ext_req>>
    /\ UNCHANGED wrk_vars
    /\ UNCHANGED mon_vars

----------------------------------------------------------------------------
(* Worker: worker.py *)

\* get_next_test returns None (lines 44, 59, 68, 70) and main, lines 204-206
\* and 222: `if not test` prints "No more tests available" and leaves the
\* loop, whatever made get_next_test return None
EndOfLoop(w, why) ==
    /\ w_pc' = [w_pc EXCEPT ![w] = "done"]
    /\ w_fetch' = [w_fetch EXCEPT ![w] = why]
    /\ w_attempt' = [w_attempt EXCEPT ![w] = 0]
    /\ retry_delay' = [retry_delay EXCEPT ![w] = base_retry_delay]
    /\ w_test' = [w_test EXCEPT ![w] = NoTest]
    /\ UNCHANGED <<w_exec, w_status, w_result>>

\* a return None that is not preceded by a sleep (lines 44, 59, 68)
ReturnNone(w, why) ==
    /\ EndOfLoop(w, why)
    /\ UNCHANGED w_slept

SleepAndRetryTripling(w) ==
    /\ w_slept' = [w_slept EXCEPT ![w] = retry_delay[w]]
    /\ IF w_attempt[w] + 1 < max_retries
       THEN /\ w_attempt' = [w_attempt EXCEPT ![w] = @ + 1]
            /\ retry_delay' = [retry_delay EXCEPT ![w] = @ * 3]
            /\ w_test' = [w_test EXCEPT ![w] = NoTest]
            /\ w_pc' = [w_pc EXCEPT ![w] = "poll"]
            /\ UNCHANGED <<w_exec, w_status, w_result, w_fetch>>
       ELSE EndOfLoop(w, "exhausted")

\* time.sleep(retry_delay); retry_delay *= 2; next iteration of the for loop,
\* which ends (return None, line 70) after max_retries iterations
SleepAndRetry(w) ==
    /\ w_slept' = [w_slept EXCEPT ![w] = retry_delay[w]]
    /\ IF w_attempt[w] + 1 < max_retries
       THEN /\ w_attempt' = [w_attempt EXCEPT ![w] = @ + 1]
            /\ retry_delay' = [retry_delay EXCEPT ![w] = @ * 2]
            /\ w_test' = [w_test EXCEPT ![w] = NoTest]
            /\ w_pc' = [w_pc EXCEPT ![w] = "poll"]
            /\ UNCHANGED <<w_exec, w_status, w_result, w_fetch>>
       ELSE EndOfLoop(w, "exhausted")

\* an exception that reaches main's `except Exception` (lines 223-226): the
\* traceback is printed and main returns
Abort(w) ==
    /\ w_pc' = [w_pc EXCEPT ![w] = "aborted"]
    /\ UNCHANGED <<w_attempt, retry_delay, w_test, w_exec, w_status, w_result, w_fetch, w_slept>>

\* `time` is a local name of get_next_test (it is imported inside the function,
\* lines 48 and 64): it is bound once an earlier iteration of this call went
\* through one of the two imports, which every iteration that did not return did
TimeIsBound(w) == w_attempt[w] > 0

\* the branches of `except requests.RequestException` (lines 60-68)
OnRequestException(w) ==
    IF w_attempt[w] < max_retries - 1
    THEN SleepAndRetry(w)
    ELSE ReturnNone(w, "exhausted")

\* the `else` branch of the status dispatch (lines 52-59)
OnOtherStatus(w) ==
    IF w_attempt[w] < max_retries - 1
    THEN IF TimeIsBound(w) THEN SleepAndRetry(w) ELSE Abort(w)
    ELSE ReturnNone(w, "exhausted")

\* main, lines 175-189: the connectivity test succeeds
main_connect(w) ==
    /\ w_pc[w] = "connect"
    /\ w_pc' = [w_pc EXCEPT ![w] = "poll"]
    /\ UNCHANGED <<w_attempt, retry_delay, w_test, w_exec, w_status, w_result, w_fetch, w_slept>>
    /\ UNCHANGED <<srv_vars, shared_outputs, resp, test_name, resets, ext_calls, seq, reset_rows, ext_req>>
    /\ UNCHANGED mon_vars

\* main, lines 190-192: the connectivity test raises and main returns
main_connect_fails(w) ==
    /\ w_pc[w] = "connect"
    /\ w_pc' = [w_pc EXCEPT ![w] = "exited"]
    /\ UNCHANGED <<w_attempt, retry_delay, w_test, w_exec, w_status, w_result, w_fetch, w_slept>>
    /\ UNCHANGED <<srv_vars, shared_outputs, resp, test_name, resets, ext_calls, seq, reset_rows, ext_req>>
    /\ UNCHANGED mon_vars

\* handlers of next_test that have selected a row and not yet committed
InFlight == {w \in Workers : w_pc[w] = "commit"}

\* get_next_test, lines 35-44, with the first half of the handler next_test
\* (server.py lines 43-58): the SELECT of the lowest pending row
get_next_test_served(w) ==
    /\ w_pc[w] = "poll"
    /\ LET test == SelectNextPending(test_cases) IN
         IF test = NoTest
         THEN ReturnNone(w, "no_work")
         ELSE /\ Cardinality(ExecIds) + Cardinality(InFlight) < MaxExec
              /\ w_test' = [w_test EXCEPT ![w] = test]
              /\ w_pc' = [w_pc EXCEPT ![w] = "commit"]
              /\ UNCHANGED <<w_attempt, retry_delay, w_exec, w_status, w_result, w_fetch, w_slept>>
    /\ UNCHANGED <<srv_vars, shared_outputs, resp, test_name, resets, ext_calls, seq, reset_rows, ext_req>>
    /\ UNCHANGED mon_vars

\* get_next_test, lines 45-68: the request fails or is answered with an error
get_next_test_error(w) ==
    /\ w_pc[w] = "poll"
    /\ \E kind \in {"exception", "database_error", "other_status"} :
          CASE kind = "exception" -> OnRequestException(w)
            [] kind = "database_error" -> SleepAndRetry(w)
            [] kind = "other_status" -> OnOtherStatus(w)
    /\ UNCHANGED <<srv_vars, shared_outputs, resp, test_name, resets, ext_calls, seq, reset_rows, ext_req>>
    /\ UNCHANGED mon_vars

\* the second half of next_test, server.py lines 60-78: mark the selected row
\* running, insert the execution, commit
NextTestWrites(w) ==
    /\ test_cases' = SetCaseStatus(test_cases, w_test[w], "running")
    /\ test_executions' =
          test_executions @@ (NewExecutionId(w) :> NewExecution(w_test[w], w))

\* next_test, server.py lines 60-89, and get_next_test lines 39-41: the
\* writes, the 200 answer, and the worker holds the test
next_test_commit(w) ==
    /\ w_pc[w] = "commit"
    /\ NextTestWrites(w)
    /\ w_pc' = [w_pc EXCEPT ![w] = "run"]
    /\ w_exec' = [w_exec EXCEPT ![w] = NewExecutionId(w)]
    /\ w_attempt' = [w_attempt EXCEPT ![w] = 0]
    /\ retry_delay' = [retry_delay EXCEPT ![w] = base_retry_delay]
    /\ UNCHANGED <<w_test, w_status, w_result, w_fetch, w_slept>>
    /\ UNCHANGED <<shared_outputs, resp, test_name, resets, ext_calls, seq, reset_rows, ext_req>>
    /\ UNCHANGED mon_vars

\* the same writes, but the answer does not reach the worker: requests.get
\* raises RequestException (worker.py lines 60-68)
next_test_commit_lost(w) ==
    /\ w_pc[w] = "commit"
    /\ NextTestWrites(w)
    /\ OnRequestException(w)
    /\ UNCHANGED <<shared_outputs, resp, test_name, resets, ext_calls, seq, reset_rows, ext_req>>
    /\ UNCHANGED mon_vars

next_test_not_marking(w) ==
    /\ w_pc[w] = "poll"
    /\ LET test == SelectNextPending(test_cases) IN
         IF test = NoTest
         THEN /\ ReturnNone(w, "no_work")
              /\ UNCHANGED srv_vars
         ELSE /\ test_cases' = test_cases
              /\ test_executions' =
                    test_executions @@ (NewExecutionId(w) :> NewExecution(test, w))
              /\ w_test' = [w_test EXCEPT ![w] = test]
              /\ w_exec' = [w_exec EXCEPT ![w] = NewExecutionId(w)]
              /\ w_pc' = [w_pc EXCEPT ![w] = "run"]
              /\ w_attempt' = [w_attempt EXCEPT ![w] = 0]
              /\ retry_delay' = [retry_delay EXCEPT ![w] = base_retry_delay]
              /\ UNCHANGED <<w_status, w_result, w_fetch, w_slept>>
    /\ UNCHANGED <<shared_outputs, resp, test_name, resets, ext_calls, seq, reset_rows, ext_req>>
    /\ UNCHANGED mon_vars

\* next_test, server.py lines 34-89, when no other request is handled between
\* its SELECT and its commit (as for k8s_test_distributor.get_next_test, lines
\* 68-111, whose caller holds the only connection), with get_next_test,
\* worker.py lines 35-44
next_test(w) ==
    /\ w_pc[w] = "poll"
    /\ LET test == SelectNextPending(test_cases) IN
         IF test = NoTest
         THEN /\ ReturnNone(w, "no_work")
              /\ UNCHANGED srv_vars
         ELSE /\ test_cases' = SetCaseStatus(test_cases, test, "running")
              /\ test_executions' =
                    test_executions @@ (NewExecutionId(w) :> NewExecution(test, w))
              /\ w_test' = [w_test EXCEPT ![w] = test]
              /\ w_exec' = [w_exec EXCEPT ![w] = NewExecutionId(w)]
              /\ w_pc' = [w_pc EXCEPT ![w] = "run"]
              /\ w_attempt' = [w_attempt EXCEPT ![w] = 0]
              /\ retry_delay' = [retry_delay EXCEPT ![w] = base_retry_delay]
              /\ UNCHANGED <<w_status, w_result, w_fetch, w_slept>>
    /\ UNCHANGED <<shared_outputs, resp, test_name, resets, ext_calls, seq, reset_rows, ext_req>>
    /\ UNCHANGED mon_vars

run_test_ignoring_returncode(w) ==
    /\ w_pc[w] = "run"
    /\ \E returncode \in {0, 1} :
          /\ w_status' = [w_status EXCEPT ![w] = "completed"]
          /\ w_result' = [w_result EXCEPT ![w] =
                 IF returncode = 0 THEN "rc_zero" ELSE "rc_nonzero"]
    /\ shared_outputs' = shared_outputs \cup {w_exec[w]}
    /\ w_pc' = [w_pc EXCEPT ![w] = "report"]
    /\ UNCHANGED <<w_attempt, retry_delay, w_test, w_exec, w_fetch, w_slept>>
    /\ UNCHANGED <<srv_vars, resp, test_name, resets, ext_calls, seq, reset_rows, ext_req>>
    /\ UNCHANGED mon_vars

\* run_test, lines 100-140: robot ends with a return code; output.xml is
\* copied to the shared directory; the status follows the return code
run_test(w) ==
    /\ w_pc[w] = "run"
    /\ \E returncode \in {0, 1} :
          /\ w_status' = [w_status EXCEPT ![w] =
                 IF returncode = 0 THEN "completed" ELSE "failed"]
          /\ w_result' = [w_result EXCEPT ![w] =
                 IF returncode = 0 THEN "rc_zero" ELSE "rc_nonzero"]
    /\ shared_outputs' = shared_outputs \cup {w_exec[w]}
    /\ w_pc' = [w_pc EXCEPT ![w] = "report"]
    /\ UNCHANGED <<w_attempt, retry_delay, w_test, w_exec, w_fetch, w_slept>>
    /\ UNCHANGED <<srv_vars, resp, test_name, resets, ext_calls, seq, reset_rows, ext_req>>
    /\ UNCHANGED mon_vars

\* run_test, lines 114-127: robot wrote no output.xml, or the copy failed
\* (a warning is printed); the status still follows the return code
run_test_no_output(w) ==
    /\ w_pc[w] = "run"
    /\ \E returncode \in {0, 1} :
          /\ w_status' = [w_status EXCEPT ![w] =
                 IF returncode = 0 THEN "completed" ELSE "failed"]
          /\ w_result' = [w_result EXCEPT ![w] =
                 IF returncode = 0 THEN "rc_zero" ELSE "rc_nonzero"]
    /\ w_pc' = [w_pc EXCEPT ![w] = "report"]
    /\ UNCHANGED <<w_attempt, retry_delay, w_test, w_exec, w_fetch, w_slept>>
    /\ UNCHANGED <<srv_vars, shared_outputs, resp, test_name, resets, ext_calls, seq, reset_rows, ext_req>>
    /\ UNCHANGED mon_vars

\* run_test, lines 142-144: an exception inside the try block
run_test_error(w) ==
    /\ w_pc[w] = "run"
    /\ w_status' = [w_status EXCEPT ![w] = "failed"]
    /\ w_result' = [w_result EXCEPT ![w] = "error"]
    /\ w_pc' = [w_pc EXCEPT ![w] = "report"]
    /\ UNCHANGED <<w_attempt, retry_delay, w_test, w_exec, w_fetch, w_slept>>
    /\ UNCHANGED <<srv_vars, shared_outputs, resp, test_name, resets, ext_calls, seq, reset_rows, ext_req>>
    /\ UNCHANGED mon_vars

\* run_test, lines 80-84: os.makedirs is outside the try block, its exception
\* leaves run_test and reaches main's handler
run_test_makedirs_error(w) ==
    /\ w_pc[w] = "run"
    /\ Abort(w)
    /\ UNCHANGED <<srv_vars, shared_outputs, resp, test_name, resets, ext_calls, seq, reset_rows, ext_req>>
    /\ UNCHANGED mon_vars

NextIterationStoppingOnFailure(w) ==
    /\ w_pc' = [w_pc EXCEPT ![w] = IF w_status[w] = "failed" THEN "done" ELSE "poll"]
    /\ w_test' = [w_test EXCEPT ![w] = NoTest]
    /\ w_exec' = [w_exec EXCEPT ![w] = NoExec]
    /\ w_status' = [w_status EXCEPT ![w] = "none"]
    /\ w_result' = [w_result EXCEPT ![w] = "none"]
    /\ UNCHANGED <<w_attempt, retry_delay, w_fetch, w_slept>>

\* the worker's variables when main goes back to the top of its while loop
\* (lines 214-220)
NextIteration(w) ==
    /\ w_pc' = [w_pc EXCEPT ![w] = "poll"]
    /\ w_test' = [w_test EXCEPT ![w] = NoTest]
    /\ w_exec' = [w_exec EXCEPT ![w] = NoExec]
    /\ w_status' = [w_status EXCEPT ![w] = "none"]
    /\ w_result' = [w_result EXCEPT ![w] = "none"]
    /\ UNCHANGED <<w_attempt, retry_delay, w_fetch, w_slept>>

\* update_test_status, lines 146-163, called once by main (line 215): the POST
\* reaches the coordinator, which runs update_test
update_test_status(w) ==
    /\ w_pc[w] = "report"
    /\ update_test(w_exec[w], w_status[w], w_result[w])
    /\ NextIteration(w)
    /\ UNCHANGED <<shared_outputs, resets, ext_calls, seq, reset_rows, ext_req>>
    /\ UNCHANGED mon_vars

\* update_test_status, lines 165-167: the POST raises RequestException, the
\* function returns False and main only prints a warning (lines 216-217)
update_test_status_fails(w) ==
    /\ w_pc[w] = "report"
    /\ NextIteration(w)
    /\ UNCHANGED <<srv_vars, shared_outputs, resp, test_name, resets, ext_calls, seq, reset_rows, ext_req>>
    /\ UNCHANGED mon_vars

\* the worker process is killed from outside.  A kill while the coordinator
\* is between SELECT and commit for this worker's request does not stop the
\* handler: it is the kill right after the commit.
kill(w) ==
    /\ w_pc[w] \in {"connect", "poll", "run", "report"}
    /\ w_pc' = [w_pc EXCEPT ![w] = "killed"]
    /\ UNCHANGED <<w_attempt, retry_delay, w_test, w_exec, w_status, w_result, w_fetch, w_slept>>
    /\ UNCHANGED <<srv_vars, shared_outputs, resp, test_name, resets, ext_calls, seq, reset_rows, ext_req>>
    /\ UNCHANGED mon_vars

----------------------------------------------------------------------------
(* Completion monitor: merger.py *)

\* get_test_status, lines 32-33: SELECT COUNT( * ) FROM test_cases
get_test_status_total ==
    /\ m_pc = "total"
    /\ m_status' = [NoStatus EXCEPT !.total = Cardinality(DOMAIN test_cases)]
    /\ m_pc' = "finished"
    /\ UNCHANGED <<merge_calls, merge_input, restarts>>

\* lines 35-39: executions whose status is completed or failed
get_test_status_finished ==
    /\ m_pc = "finished"
    /\ m_status' = [m_status EXCEPT !.finished = CountExecutions(TerminalStatus)]
    /\ m_pc' = "passed"
    /\ UNCHANGED <<merge_calls, merge_input, restarts>>

\* lines 41-42
get_test_status_passed ==
    /\ m_pc = "passed"
    /\ m_status' = [m_status EXCEPT !.passed = CountExecutions({"completed"})]
    /\ m_pc' = "failed"
    /\ UNCHANGED <<merge_calls, merge_input, restarts>>

\* 'all_completed': total_tests == finished_tests (line 54)
all_completed(status) == status.total = status.finished

\* lines 44-55 and monitor_and_merge lines 177-195: the last count, then merge
\* after a pause when all_completed, else sleep and poll again
get_test_status_failed ==
    /\ m_pc = "failed"
    /\ LET status == [m_status EXCEPT !.failed = CountExecutions({"failed"})] IN
         /\ m_status' = status
         /\ m_pc' = IF all_completed(status) THEN "merge" ELSE "total"
    /\ UNCHANGED <<merge_calls, merge_input, restarts>>

\* get_test_status, lines 56-58, and monitor_and_merge lines 172-175: a query
\* fails, the status is None and the loop starts over
get_test_status_error ==
    /\ m_pc \in {"finished", "passed", "failed"}
    /\ m_pc' = "total"
    /\ m_status' = NoStatus
    /\ UNCHANGED <<merge_calls, merge_input, restarts>>

\* get_output_xml_files, lines 60-65
get_output_xml_files == shared_outputs

merge_test_results_retrying ==
    /\ m_pc = "merge"
    /\ LET xml_files == get_output_xml_files IN
         IF xml_files = {}
         THEN /\ m_pc' = "exit1"
              /\ UNCHANGED <<merge_calls, merge_input>>
         ELSE /\ merge_calls' = merge_calls + 1
              /\ merge_input' = xml_files
              /\ \E ok \in BOOLEAN : m_pc' = IF ok THEN "done" ELSE "total"
    /\ UNCHANGED <<m_status, restarts>>

\* merge_test_results, lines 67-133, and the end of monitor_and_merge, lines
\* 187-192: no file gives False; else rebot runs and succeeds or fails;
\* False ends the process with exit code 1
merge_test_results ==
    /\ m_pc = "merge"
    /\ LET xml_files == get_output_xml_files IN
         IF xml_files = {}
         THEN /\ m_pc' = "exit1"
              /\ UNCHANGED <<merge_calls, merge_input>>
         ELSE /\ merge_calls' = merge_calls + 1
              /\ merge_input' = xml_files
              /\ \E ok \in BOOLEAN : m_pc' = IF ok THEN "done" ELSE "exit1"
    /\ UNCHANGED <<m_status, restarts>>

\* the merger process is started again (by its orchestrator or by hand)
monitor_restart ==
    /\ restarts < MaxRestarts
    /\ m_pc # "total"
    /\ m_pc' = "total"
    /\ m_status' = NoStatus
    /\ restarts' = restarts + 1
    /\ UNCHANGED <<merge_calls, merge_input>>

monitor_and_merge ==
    /\ \/ get_test_status_total
       \/ get_test_status_finished
       \/ get_test_status_passed
       \/ get_test_status_failed
       \/ merge_test_results
    /\ UNCHANGED <<srv_vars, shared_outputs, resp, test_name, resets, ext_calls, seq, reset_rows, ext_req>>
    /\ UNCHANGED wrk_vars

monitor_env ==
    /\ \/ get_test_status_error
       \/ monitor_restart
    /\ UNCHANGED <<srv_vars, shared_outputs, resp, test_name, resets, ext_calls, seq, reset_rows, ext_req>>
    /\ UNCHANGED wrk_vars

----------------------------------------------------------------------------
(* Distributor: k8s_test_distributor.py *)

\* check_test_completion, lines 206-227: remaining == 0, where remaining is
\* the number of test cases that are pending or running
check_test_completion == CountCases({"pending", "running"}) = 0

----------------------------------------------------------------------------
(* Specifications *)

\* one step of a worker whose requests are answered and whose robot run ends
worker_step(w) ==
    \/ main_connect(w)
    \/ get_next_test_served(w)
    \/ next_test_commit(w)
    \/ run_test(w)
    \/ update_test_status(w)

\* a failure of the network, of the coordinator or of the file system, as the
\* worker sees it
worker_fault(w) ==
    \/ main_connect_fails(w)
    \/ get_next_test_error(w)
    \/ next_test_commit_lost(w)
    \/ run_test_no_output(w)
    \/ run_test_error(w)
    \/ run_test_makedirs_error(w)
    \/ update_test_status_fails(w)

\* The coordinator and its workers: concurrent claims, runs and reports.
Next ==
    \E w \in Workers : worker_step(w)

Spec == Init /\ [][Next]_vars

\* The same, with resets.
ResetNext ==
    \/ Next
    \/ reset_tests

ResetSpec == Init /\ [][ResetNext]_vars

\* The same, with reports that other clients of the API deliver.
ApiNext ==
    \/ ResetNext
    \/ api_update_test

ApiSpec == Init /\ [][ApiNext]_vars

\* Workers that can be killed and whose report can fail to reach the
\* coordinator.  A worker process that is not killed keeps running, and the
\* coordinator finishes every request it has started: weak fairness of the
\* steps of each worker.
CrashNext ==
    \/ \E w \in Workers : worker_step(w)
    \/ \E w \in Workers : kill(w)
    \/ \E w \in Workers : update_test_status_fails(w)

CrashSpec ==
    /\ Init
    /\ [][CrashNext]_vars
    /\ \A w \in Workers : WF_vars(worker_step(w))

\* The workers and the merger, which can be restarted and whose queries can
\* fail.
MonitorNext ==
    \/ \E w \in Workers : worker_step(w)
    \/ monitor_and_merge
    \/ monitor_env

MonitorSpec == Init /\ [][MonitorNext]_vars

\* The workers and a merger that is never restarted and whose queries never
\* fail; every process keeps running.
PollNext ==
    \/ \E w \in Workers : worker_step(w)
    \/ monitor_and_merge

PollSpec ==
    /\ Init
    /\ [][PollNext]_vars
    /\ \A w \in Workers : WF_vars(worker_step(w))
    /\ WF_vars(monitor_and_merge)

\* The workers with every failure they can meet, short of being killed.
FaultNext ==
    \/ \E w \in Workers : worker_step(w)
    \/ \E w \in Workers : worker_fault(w)

FaultSpec == Init /\ [][FaultNext]_vars

\* The workers when the coordinator handles one request at a time.
SeqNext ==
    \/ \E w \in Workers : main_connect(w)
    \/ \E w \in Workers : next_test(w)
    \/ \E w \in Workers : run_test(w)
    \/ \E w \in Workers : update_test_status(w)

SeqSpec == Init /\ [][SeqNext]_vars

\* The workers when robot writes no output or cannot be run.
RunNext ==
    \/ \E w \in Workers : worker_step(w)
    \/ \E w \in Workers : run_test_no_output(w)
    \/ \E w \in Workers : run_test_error(w)

RunSpec == Init /\ [][RunNext]_vars

\* The workers when requests to GET /api/next_test fail.
RetryNext ==
    \/ \E w \in Workers : worker_step(w)
    \/ \E w \in Workers : get_next_test_error(w)
    \/ \E w \in Workers : next_test_commit_lost(w)

RetrySpec == Init /\ [][RetryNext]_vars

\* The same, where every worker process keeps running until its main returns.
FairRetrySpec ==
    /\ Init
    /\ [][RetryNext]_vars
    /\ \A w \in Workers : WF_vars(worker_step(w))

\* The workers while the parser is run again on the same database file.
SeedNext ==
    \/ \E w \in Workers : worker_step(w)
    \/ store_in_database

SeedSpec == Init /\ [][SeedNext]_vars

----------------------------------------------------------------------------
(* Claims *)

Running(e) == test_executions[e].status = "running"
Finalized(e) == test_executions[e].status \in TerminalStatus

\* C1: no test has two executions that are running at the same time.
C1_MutualExclusion ==
    \A e1, e2 \in ExecIds :
        (e1 # e2 /\ Running(e1) /\ Running(e2))
            => test_executions[e1].test_id # test_executions[e2].test_id

\* C2: as long as no reset happened, no test is handed out twice, so there are
\* never more executions than tests.
C2_DistinctClaims ==
    resets = 0 =>
        /\ \A e1, e2 \in ExecIds :
              e1 # e2 => test_executions[e1].test_id # test_executions[e2].test_id
        /\ Cardinality(ExecIds) <= Cardinality(DOMAIN test_cases)

\* C3: the handler selects the pending test with the lowest id, the execution
\* it inserts and the answer carry that test, and the answer is 404 exactly
\* when no test is pending.
C3_LowestPending ==
    [][\A w \in Workers :
         /\ (w_pc[w] = "poll" /\ w_pc'[w] = "commit") =>
               /\ w_test'[w] \in PendingIds(test_cases)
               /\ \A i \in PendingIds(test_cases) : w_test'[w] <= i
         /\ (w_pc[w] = "poll" /\ w_pc'[w] = "done" /\ w_fetch'[w] = "no_work") =>
               PendingIds(test_cases) = {}
         /\ (w_pc[w] = "poll" /\ PendingIds(test_cases) = {} /\ w_pc'[w] # "poll") =>
               (w_pc'[w] = "done" /\ w_fetch'[w] = "no_work")
         /\ (w_pc[w] = "commit" /\ w_pc'[w] = "run") =>
               /\ w_exec'[w] \in DOMAIN test_executions'
               /\ test_executions'[w_exec'[w]].test_id = w_test[w]
               /\ w_test'[w] = w_test[w]
      ]_vars

\* a handler has selected test 2 while test 1 was not pending, and another
\* worker was answered 404
C3_Witness ==
    \E w, v \in Workers :
        /\ w_pc[w] = "commit"
        /\ w_test[w] = 2
        /\ test_cases[1] # "pending"
        /\ w_pc[v] = "done"
        /\ w_fetch[v] = "no_work"

\* C4: once an execution is completed or failed, no later report changes its
\* row (status, end time, result).
C4_ReportAppliedOnce ==
    [][\A e \in ExecIds :
         Finalized(e) => test_executions'[e] = test_executions[e]]_vars

LegalStep(old, new) ==
    \/ old = new
    \/ old = "pending" /\ new = "running"
    \/ old = "running" /\ new \in TerminalStatus
    \/ old = "running" /\ new = "pending"

\* C5: a test's status only moves pending -> running -> completed/failed,
\* running -> pending, or anything -> pending in a reset.
C5_StateMachine ==
    [][\A i \in DOMAIN test_cases :
         \/ LegalStep(test_cases[i], test_cases'[i])
         \/ resets' = resets + 1 /\ test_cases'[i] = "pending"]_vars

AllTerminal == \A i \in DOMAIN test_cases : test_cases[i] \in TerminalStatus

KilledHolding(w) == w_pc[w] = "killed" /\ w_exec[w] # NoExec

HeldReleased(w) ==
    /\ w_exec[w] \in ExecIds
    /\ ~Running(w_exec[w])
    /\ w_test[w] \in DOMAIN test_cases
    /\ test_cases[w_test[w]] # "running"

\* C6: when a worker is killed while it holds a test and another worker is
\* never killed, the execution it held is eventually finalized and the test
\* eventually leaves "running".
C6_Reclaim ==
    \A w \in Workers :
        (\E v \in Workers \ {w} : [](w_pc[v] # "killed"))
            => [](KilledHolding(w) => <>HeldReleased(w))

\* C7: if some worker is never killed, every test is eventually completed or
\* failed.
C7_CompletionReachable ==
    (\E w \in Workers : [](w_pc[w] # "killed")) => <>AllTerminal

\* C8: when the merger is about to merge, every test is completed or failed.
C8_MergeOnlyWhenTerminal ==
    m_pc = "merge" => AllTerminal

\* C9: rebot --merge runs at most once.
C9_MergeAtMostOnce ==
    merge_calls <= 1

\* C10: if from some point on every test is completed or failed, the merger
\* eventually goes on to merge.
C10_MergeEventually ==
    <>[]AllTerminal => <>(m_pc \in {"merge", "done", "exit1"})

\* the test of each file of a set of files of the shared directory
TestOfFile(e) == test_executions[e].test_id

OnePerItem(files) ==
    /\ files \subseteq ExecIds
    /\ Cardinality(files) = Cardinality(DOMAIN test_cases)
    /\ \A i \in DOMAIN test_cases : \E e \in files : TestOfFile(e) = i

\* C11: when rebot --merge is started while every test is completed or failed,
\* it is given exactly one output file per test: as many files as tests, and a
\* file of every test.
C11_MergeInput ==
    [][(merge_calls' = merge_calls + 1 /\ AllTerminal) => OnePerItem(merge_input')]_vars

\* C12: while an execution is running, no run of the parser replaces the
\* catalog: the rows of test_cases keep their ids and no id is given out.
C12_SeedRejectedWhileRunning ==
    [][(\E e \in ExecIds : Running(e))
          => (seq' = seq /\ DOMAIN test_cases' = DOMAIN test_cases)]_vars

\* C13: a reset leaves every test pending, answers with the number of tests,
\* and changes no row of test_executions.
C13_ResetFrame ==
    [][resets' = resets + 1 =>
         /\ DOMAIN test_cases' = DOMAIN test_cases
         /\ \A i \in DOMAIN test_cases : test_cases'[i] = "pending"
         /\ reset_rows' = Cardinality(DOMAIN test_cases)
         /\ test_executions' = test_executions]_vars

\* a reset has happened after a test was run to the end: the test is pending
\* again and its finished execution is still there
C13_Witness ==
    /\ resets = 1
    /\ reset_rows = NumItems
    /\ \E e \in ExecIds :
          /\ Finalized(e)
          /\ test_cases[test_executions[e].test_id] = "pending"

\* C14: the numbers one call of get_test_status returns describe one state of
\* the store: the finished executions are the passed ones plus the failed ones.
C14_ConsistentSnapshot ==
    m_pc \in {"total", "merge", "done", "exit1"}
        => m_status.finished = m_status.passed + m_status.failed

\* C15: a worker that holds an execution leaves run_test only to report it:
\* whatever happens in run_test, the next thing the worker does is the POST of
\* update_test_status.
C15_AlwaysReports ==
    [][\A w \in Workers :
         (w_pc[w] = "run" /\ w_pc'[w] # "run") => w_pc'[w] = "report"]_vars

\* C16: a worker whose get_next_test gave up after max_retries failed requests
\* does not end like a worker that was answered 404.
C16_ExhaustionIsFatal ==
    \A w \in Workers : w_fetch[w] = "exhausted" => w_pc[w] # "done"

RECURSIVE Pow2(_)
Pow2(k) == IF k = 0 THEN 1 ELSE 2 * Pow2(k - 1)

\* the longest sleep the loop of get_next_test can reach: there is no ceiling
\* in the code, the number of iterations limits the delay
RetryDelayCeiling == base_retry_delay * Pow2(max_retries - 1)

\* C17: one call of get_next_test sends at most max_retries requests; before
\* request k + 1 of the call it has slept base_retry_delay * 2^(k - 1), so the
\* delays are 1, 2, 4; and no sleep is longer than
\* base_retry_delay * 2^(max_retries - 1).
C17_BoundedBackoff ==
    \A w \in Workers :
        /\ w_attempt[w] < max_retries
        /\ retry_delay[w] = base_retry_delay * Pow2(w_attempt[w])
        /\ w_attempt[w] > 0 => w_slept[w] = base_retry_delay * Pow2(w_attempt[w] - 1)
        /\ w_slept[w] <= RetryDelayCeiling

\* a worker is about to send the last request of a call, after two sleeps,
\* and another one has slept the longest delay
C17_Witness ==
    \E w, v \in Workers :
        /\ w_pc[w] = "poll"
        /\ w_attempt[w] = max_retries - 1
        /\ w_slept[w] = 2 * base_retry_delay
        /\ w_slept[v] = RetryDelayCeiling

\* the rows of test_executions made for the requests of node w
RowsOf(w, te) == [e \in {x \in DOMAIN te : x[1] = w} |-> te[e]]

\* C18: a worker that was answered 404 has left its loop and stays out of it:
\* it holds nothing, no execution is made for it and none of its executions
\* changes.  A worker that reports a failed test goes on to poll again, and
\* its report makes the execution failed.
C18_LoopTermination ==
    [][\A w \in Workers :
         /\ w_fetch'[w] = "no_work" => w_pc'[w] = "done"
         /\ (w_pc[w] = "done" /\ w_fetch[w] = "no_work") =>
               /\ w_pc'[w] = "done"
               /\ w_exec'[w] = NoExec
               /\ RowsOf(w, test_executions') = RowsOf(w, test_executions)
         /\ (w_pc[w] = "report" /\ w_status[w] = "failed" /\ w_pc'[w] # "report") =>
               /\ w_pc'[w] = "poll"
               /\ test_executions'[w_exec[w]].status = "failed"
      ]_vars

\* a worker ended on 404 after it had run a test that failed and gone on
C18_Witness ==
    \E w \in Workers :
        /\ w_pc[w] = "done"
        /\ w_fetch[w] = "no_work"
        /\ \E e \in ExecIds : e[1] = w /\ test_executions[e].status = "failed"

\* C19: the step that runs the merge ends the merger, with exit code 1 when
\* the merge failed; a merger that ended with exit code 1 runs no further
\* merge and reads no further status.
C19_MergeFailureIsFinal ==
    [][/\ (m_pc = "merge" /\ m_pc' # "merge") => m_pc' \in {"done", "exit1"}
       /\ m_pc = "exit1" =>
             /\ m_pc' = "exit1"
             /\ merge_calls' = merge_calls
             /\ m_status' = m_status
      ]_vars

\* rebot was run once and failed, the merger has ended with exit code 1
C19_Witness ==
    /\ m_pc = "exit1"
    /\ merge_calls = 1

\* C20: the commit of next_test finds the selected test pending and makes it
\* running, adds one row with a new id, that test, the caller's node id and
\* status running, and changes no other test and no other row; a 404 answer
\* changes neither table.
C20_ClaimFrame ==
    [][\A w \in Workers :
         /\ (w_pc[w] = "commit" /\ w_pc'[w] = "run") =>
               /\ test_cases[w_test[w]] = "pending"
               /\ test_cases' = SetCaseStatus(test_cases, w_test[w], "running")
               /\ w_exec'[w] \notin ExecIds
               /\ DOMAIN test_executions' = ExecIds \cup {w_exec'[w]}
               /\ test_executions'[w_exec'[w]].test_id = w_test[w]
               /\ test_executions'[w_exec'[w]].node_id = w
               /\ test_executions'[w_exec'[w]].status = "running"
               /\ \A e \in ExecIds : test_executions'[e] = test_executions[e]
         /\ (w_pc[w] = "poll" /\ w_fetch'[w] = "no_work" /\ w_pc'[w] = "done") =>
               UNCHANGED <<test_cases, test_executions>>
      ]_vars

\* C21: a report that is applied to an execution leaves it completed or
\* failed: update_test never writes another status to a row.
C21_OnlyTerminalOutcomes ==
    [][\A e \in ExecIds :
         test_executions'[e] # test_executions[e]
             => test_executions'[e].status \in TerminalStatus]_vars

\* C22: an update_test call for an execution id that no row has is answered
\* 404 and changes neither table.
C22_UnknownIdNotFound ==
    [][(ext_calls' = ext_calls + 1 /\ ext_req'.execution_id \notin ExecIds)
          => (resp' = 404 /\ UNCHANGED <<test_cases, test_executions>>)]_vars

\* a call for an unknown id was answered, and after it the coordinator has
\* handed out a test and applied a worker's report
C22_Witness ==
    /\ ext_calls = 1
    /\ ext_req.execution_id = NoExec
    /\ resp = 200
    /\ \E e \in ExecIds : Finalized(e)

\* C23: a test that has an execution and is pending was reset after that
\* execution was made (nothing else makes a test with an execution pending
\* when only workers report); a report for such an execution leaves the test
\* pending.
C23_LateReportAfterReset ==
    [][\A e \in ExecIds :
         LET i == test_executions[e].test_id IN
           (test_cases[i] = "pending" /\ test_executions'[e] # test_executions[e])
               => test_cases'[i] = "pending"]_vars

\* C24: while the for loop of get_next_test has iterations left, a failed
\* request makes the worker try again: the worker stops polling only with a
\* test or on a 404 answer.
C24_TransientErrorsRetried ==
    [][\A w \in Workers :
         (w_pc[w] = "poll" /\ w_attempt[w] < max_retries - 1 /\ w_pc'[w] # "poll")
             => \/ w_pc'[w] = "commit"
                \/ w_pc'[w] = "done" /\ w_fetch'[w] = "no_work"]_vars

\* C25: a run of the parser that stores n tests leaves exactly n rows in
\* test_cases, none of them a row of the table before, all of them pending,
\* so that the next SELECT of next_test finds one of them.
C25_SeedReplaces ==
    [][seq' # seq =>
         /\ Cardinality(DOMAIN test_cases') = seq' - seq
         /\ DOMAIN test_cases' \cap DOMAIN test_cases = {}
         /\ \A i \in DOMAIN test_cases' : test_cases'[i] = "pending"
         /\ SelectNextPending(test_cases') \in DOMAIN test_cases']_vars

\* the parser has replaced a catalog that had a finished and a running test,
\* and a worker holds a test of the new catalog
C25_Witness ==
    /\ seq > NumItems
    /\ \E e \in ExecIds : Finalized(e) /\ test_executions[e].test_id <= NumItems
    /\ \E w \in Workers :
          /\ w_pc[w] = "run"
          /\ w_test[w] \in DOMAIN test_cases
          /\ w_test[w] > NumItems

\* C26: the status a worker is about to report is completed exactly when
\* robot's return code was 0 and failed otherwise (another return code, or an
\* exception caught in run_test); the report is made for the execution the
\* worker was handed, writes that status to it and touches no other row.
C26_OutcomeMapping ==
    [][\A w \in Workers :
         /\ w_pc'[w] = "report" =>
               /\ w_status'[w] \in TerminalStatus
               /\ w_status'[w] = "completed" <=> w_result'[w] = "rc_zero"
               /\ w_exec'[w] \in DOMAIN test_executions'
               /\ test_executions'[w_exec'[w]].node_id = w
               /\ test_executions'[w_exec'[w]].test_id = w_test'[w]
         /\ (w_pc[w] = "report" /\ w_pc'[w] # "report") =>
               /\ test_executions'[w_exec[w]].status = w_status[w]
               /\ \A e \in ExecIds \ {w_exec[w]} :
                     test_executions'[e] = test_executions[e]
      ]_vars

\* one worker has reported a test completed, another is about to report a
\* test failed because of an exception in run_test
C26_Witness ==
    \E w, v \in Workers :
        /\ \E e \in ExecIds :
              /\ test_executions[e].node_id = w
              /\ test_executions[e].status = "completed"
              /\ test_executions[e].result = "rc_zero"
        /\ w_pc[v] = "report"
        /\ w_status[v] = "failed"
        /\ w_result[v] = "error"

\* C27: when the only reports are those of the workers, every test that is
\* running has an execution that is running.
C27_RunningItemHasRunningAttempt ==
    \A i \in DOMAIN test_cases :
        test_cases[i] = "running" =>
            \E e \in ExecIds : test_executions[e].test_id = i /\ Running(e)

\* after a reset a test is running for its second execution while its first
\* one is finished
C27_Witness ==
    /\ resets = 1
    /\ \E i \in DOMAIN test_cases :
          /\ test_cases[i] = "running"
          /\ \E e1, e2 \in ExecIds :
                /\ test_executions[e1].test_id = i /\ Finalized(e1)
                /\ test_executions[e2].test_id = i /\ Running(e2)

\* C28: when the coordinator handles one request at a time and the catalog is
\* neither reset nor replaced, every test handed out has a higher id than all
\* tests handed out before, and no test has two executions.
C28_SequentialAscending ==
    [][/\ \A w \in Workers :
            (w_pc[w] = "poll" /\ w_pc'[w] = "run") =>
                /\ test_executions'[w_exec'[w]].test_id = w_test'[w]
                /\ \A e \in ExecIds : test_executions[e].test_id < w_test'[w]
       /\ \A e1, e2 \in DOMAIN test_executions' :
            e1 # e2 => test_executions'[e1].test_id # test_executions'[e2].test_id
      ]_vars

\* both tests were handed out, to different workers, the first one is
\* finished
C28_Witness ==
    \E e1, e2 \in ExecIds :
        /\ test_executions[e1].test_id = 1
        /\ test_executions[e2].test_id = 2
        /\ e1[1] # e2[1]
        /\ Finalized(e1)

\* C29: there are never more executions than tests times workers, and every
\* worker eventually leaves its loop because get_next_test returned None (on
\* 404 or after max_retries failed requests).
C29_WorkersTerminate ==
    /\ [](Cardinality(ExecIds) <= NumItems * NumWorkers)
    /\ \A w \in Workers : <>(w_pc[w] = "done")

\* what get_test_status returns when its queries read one state of the store
StatusNow ==
    [total |-> Cardinality(DOMAIN test_cases),
     finished |-> CountExecutions(TerminalStatus),
     passed |-> CountExecutions({"completed"}),
     failed |-> CountExecutions({"failed"})]

\* C30: in every state the merger's condition (as many finished executions
\* as tests) holds exactly when the distributor's does (no test is pending or
\* running).
C30_CompletionChecksAgree ==
    all_completed(StatusNow) <=> check_test_completion

\* the executions whose test is not a row of test_cases
Stale == {e \in ExecIds : test_executions[e].test_id \notin DOMAIN test_cases}

\* C31: the parser never gives a new row the id of a row the table had before,
\* so no execution that exists when the parser runs refers to a row of the
\* new table; and update_test for an execution whose test is not in the table
\* answers 200, writes the reported final status to the execution and leaves
\* every row of test_cases as it was.
C31_StaleReportTouchesNoItem ==
    [][/\ seq' # seq =>
            /\ \A i \in DOMAIN test_cases' : i > seq
            /\ \A e \in ExecIds : test_executions[e].test_id \notin DOMAIN test_cases'
       /\ \A e \in Stale :
            test_executions'[e] # test_executions[e] =>
                /\ resp' = 200
                /\ test_executions'[e].status \in TerminalStatus
                /\ test_executions'[e].test_id = test_executions[e].test_id
                /\ test_cases' = test_cases]_vars

\* update_test has just answered a worker's report for an execution of a test
\* the parser has deleted, while the other worker holds a test of the new table
C31_Witness ==
    /\ seq > NumItems
    /\ resp = 200
    /\ test_name = "Unknown test"
    /\ \E e \in Stale : Finalized(e) /\ test_executions[e].test_id <= NumItems
    /\ \E w \in Workers : w_pc[w] = "run" /\ w_test[w] \in DOMAIN test_cases

============================================================================
